---- MODULE Spec2Model ----
\* Model of the job-completion tracking protocol of core/comfy_api.py:
\* monitor_until_nodes_ready (the tracker), its on_message listener running on
\* the websocket worker thread, and get_node_outputs_from_history (the poller).
EXTENDS Naturals, FiniteSets, Sequences, TLC

\* ------------------------------------------------------------------ bounds
\* Number of live-channel messages the server delivers in one session.
MaxMsgs == 2
\* The deadline of event.wait(timeout), in clock ticks.
Deadline == 1

\* ------------------------------------------------------------------ values
\* Output identifiers of the workflow. With the watch set {A}, B is a node the
\* caller does not watch but the server still executes, caches and records.
Nodes == {"A", "B"}
\* The watch sets tracking is started with (watch_node_ids).
WatchSets == {{"A"}, {"A", "B"}}
\* Artifacts a node can produce (x: recorded in history, y: another payload).
Artifacts == {"x", "y"}
\* prompt_id of the tracked job, and the id of a job of another client.
JobId == "job"
OtherId == "other"
NoNode == "-"

\* The empty mapping {}.
Empty == [n \in {} |-> "x"]

\* Inbound frames of the live channel, by what on_message reads of them.
ExecutedMsgs ==
    [type : {"executed"}, pid : {JobId, OtherId}, node : Nodes,
     nodes : {{}}, out : Artifacts, qr : {1}]
CachedMsgs ==
    [type : {"execution_cached"}, pid : {JobId, OtherId}, node : {NoNode},
     nodes : SUBSET Nodes, out : {"x"}, qr : {1}]
StatusMsgs ==
    [type : {"status"}, pid : {JobId}, node : {NoNode},
     nodes : {{}}, out : {"x"}, qr : {0, 1}]
\* binary: a bytes frame; preview: a JSON preview message; progress: any other
\* JSON type; malformed: text json.loads rejects.
OtherMsgs ==
    [type : {"binary", "preview", "progress", "malformed"}, pid : {JobId},
     node : {NoNode}, nodes : {{}}, out : {"x"}, qr : {1}]
Messages == ExecutedMsgs \cup CachedMsgs \cup StatusMsgs \cup OtherMsgs

\* The kind of a message, by what the server sent: unparsable or misshapen
\* text, an executed or execution_cached event of another job, a preview frame
\* (binary or JSON), or any other well-formed message.
KindOf(m) ==
    IF m.type = "malformed" THEN "malformed"
    ELSE IF m.type \in {"executed", "execution_cached"} /\ m.pid = OtherId
         THEN "foreign"
    ELSE IF m.type \in {"binary", "preview"} THEN "preview"
    ELSE "plain"

\* Outcomes of GET /history/{prompt_id}: 200 with the job's record, 200 with a
\* body that lacks the job id (the server holds no record yet), another status
\* code, and a transport failure or unparsable body.
Responses == {"ok", "no_record", "non200", "error"}

VARIABLES
    watch_node_ids,     \* parameter: the watch set
    interrupt_on_ready, \* parameter: cancel on ready
    preview_callback,   \* parameter: TRUE iff a preview sink was passed
    received_executed,  \* the confirmed set (line 236)
    event,              \* the done signal: threading.Event is set
    ws,                 \* the subscription: "new", "connecting", "open", "closed"
    wpc,                \* worker position inside on_message
    pc,                 \* caller position inside monitor_until_nodes_ready
    now,                \* clock ticks since event.wait started
    success,            \* what event.wait(timeout) returned (line 352)
    outputs,            \* server: the execution record's outputs of the job
    result,             \* the caller's local result
    returned,           \* the value track() returned
    polls,              \* number of history polls issued
    interrupts,         \* number of POST /interrupt requests issued
    previews,           \* number of frames handed to preview_callback
    nmsgs,              \* messages delivered so far
    execSeen,           \* history: watched nodes with an executed event of the job
    cachedCover,        \* history: watched nodes listed by cached batches of the job
    fullBatch,          \* history: one cached batch of the job listed all of W
    lastKind,           \* history: what kind of message on_message was given last
    intFailed,          \* history: a POST /interrupt of the session failed
    sigBy,              \* history: path of the handler that is about to signal
    doneBy,             \* history: path that set the done signal first
    outcome,            \* history: how the live wait ended
    pollOutputs,        \* history: the record's outputs when the poll was made
    pollResp,           \* history: the response of the poll
    gpc,                \* position inside generate_txt2img / generate_inpaint
    sessions,           \* tracking calls the generation has made
    first,              \* the result of the generation's first tracking call
    final,              \* the result the generation goes on with
    submitFailed,       \* history: queue_prompt failed
    peer,               \* a second tracking call running at the same time
    preview_func,       \* parameter of generate_*: TRUE iff a UI sink was passed
    frame,              \* history: the preview message handled last
    sunk,               \* arguments of the last message's preview_callback call
    shown,              \* arguments of the last message's preview_func call
    generated,          \* the (url, path) pair generate_* returned
    mode,               \* the tab: "txt2img" or "inpaint"
    is_generating,      \* the tab's flag: threading.Event is set
    gen,                \* position of the on_generate generator
    run,                \* number of on_generate runs started on the tab
    thread,             \* per run: position of its run_generation thread
    generation_complete, \* the current run's threading.Event is set
    generation_result,  \* the current run's [url, file_path]
    raised,             \* history: the current run's generate_* raised
    preview_images,     \* length of the tab's preview list
    last_preview_count, \* local of the generator's wait loop
    npolls,             \* iterations of the wait loop so far
    updates,            \* what the current run has yielded to the page
    ipc,                \* position of the on_interrupt handler
    presses,            \* number of clicks on the interrupt button
    cancels,            \* POST /interrupt requests the button has sent
    found,              \* history: the flag as the last click read it
    interrupt_status    \* the status text the last click reported

\* State of one tab of the page (create_txt2img_ui / create_inpaint_ui).
uiVars == <<mode, is_generating, gen, run, thread, generation_complete,
            generation_result, raised, preview_images, last_preview_count,
            npolls, updates, ipc, presses, cancels, found, interrupt_status>>

vars == <<watch_node_ids, interrupt_on_ready, preview_callback, received_executed,
          event, ws, wpc, pc, now, success, outputs, result, returned, polls, interrupts,
          previews, nmsgs, execSeen, cachedCover, fullBatch, lastKind,
          intFailed, sigBy,
          doneBy, outcome, pollOutputs, pollResp, gpc, sessions, first, final,
          submitFailed, peer, preview_func, frame, sunk, shown, generated,
          uiVars>>

\* What a tracking call never writes: its parameters and the locals of the
\* generation that made the call.
genVars == <<gpc, sessions, first, final, submitFailed>>
\* State of the other calls of the module; a tracking call has no access to it.
aux == <<peer, preview_func, frame, sunk, shown, generated, uiVars>>
params == <<watch_node_ids, interrupt_on_ready, preview_callback, genVars, aux>>
callerVars == <<pc, now, success, result, returned, polls, outcome, pollOutputs, pollResp>>
hist == <<execSeen, cachedCover, fullBatch, lastKind, intFailed>>

\* ------------------------------------------------------------------ helpers
\* all(n in s for n in watch_node_ids)
AllIn(w, s) == \A n \in w : n \in s

\* A poller that answers for every watched node, present in the record or not
\* (outputs.get(node_id, default) in place of the membership test).
GetNodeOutputsFromHistory_default(resp, outs, node_ids) ==
    IF resp = "ok"
    THEN [n \in node_ids |-> IF n \in DOMAIN outs THEN outs[n] ELSE "x"]
    ELSE Empty

\* A poller that returns the record's outputs without restricting them.
GetNodeOutputsFromHistory_all(resp, outs, node_ids) ==
    IF resp = "ok" THEN outs ELSE Empty

\* get_node_outputs_from_history: the record's outputs restricted to node_ids;
\* {} on a non-200 response, on any exception, and when the id is absent.
GetNodeOutputsFromHistory(resp, outs, node_ids) ==
    IF resp = "ok"
    THEN [n \in {m \in node_ids : m \in DOMAIN outs} |-> outs[n]]
    ELSE Empty

\* A caller that trusts the live wait: no result unless the event was set
\* (the return of monitor_websocket_for_node_output, line 212).
TrackResult_onlyOnSuccess(ok, r) == IF ok /\ DOMAIN r # {} THEN r ELSE Empty

\* line 362: return result if result else {}; success (line 352) is not read.
TrackResult(ok, r) == IF DOMAIN r # {} THEN r ELSE Empty

\* ------------------------------------------------------------------ init
\* No second tracking call.
NoPeer == [pc |-> "off", watch |-> {}, received_executed |-> {},
           event |-> FALSE, ws |-> "new", returned |-> Empty]

\* No preview message handled yet.
NoFrame == [kind |-> "none", body |-> << >>, img |-> FALSE]

NoPreviews ==
    /\ preview_func = FALSE
    /\ frame = NoFrame
    /\ sunk = << >>
    /\ shown = << >>

\* Nothing else of the module is running.
\* ("", None): the empty string and None are both the empty sequence.
NoArtifact == [url |-> << >>, path |-> << >>]

\* Bound: on_generate runs started on the tab.
MaxRuns == 2
Runs == 1..MaxRuns

\* The page is open and nothing was clicked.
UiIdle ==
    /\ mode = "txt2img"
    /\ is_generating = FALSE
    /\ gen = "idle"
    /\ run = 0
    /\ thread = [r \in Runs |-> "none"]
    /\ generation_complete = FALSE
    /\ generation_result = NoArtifact
    /\ raised = FALSE
    /\ preview_images = 0
    /\ last_preview_count = 0
    /\ npolls = 0
    /\ updates = << >>
    /\ ipc = "idle"
    /\ presses = 0
    /\ cancels = 0
    /\ found = FALSE
    /\ interrupt_status = "none"

AuxIdle ==
    /\ peer = NoPeer
    /\ NoPreviews
    /\ generated = NoArtifact
    /\ UiIdle

Init ==
    /\ watch_node_ids \in WatchSets
    /\ interrupt_on_ready \in BOOLEAN
    /\ preview_callback \in BOOLEAN
    /\ received_executed = {}
    /\ event = FALSE
    /\ ws = "new"
    /\ wpc = "idle"
    /\ pc = "start"
    /\ now = 0
    /\ success = FALSE
    /\ outputs = Empty
    /\ result = Empty
    /\ returned = Empty
    /\ polls = 0
    /\ interrupts = 0
    /\ previews = 0
    /\ nmsgs = 0
    /\ execSeen = {}
    /\ cachedCover = {}
    /\ fullBatch = FALSE
    /\ lastKind = "none"
    /\ intFailed = FALSE
    /\ sigBy = "none"
    /\ doneBy = "none"
    /\ outcome = "WAITING"
    /\ pollOutputs = Empty
    /\ pollResp = "none"
    /\ gpc = "direct"
    /\ sessions = 0
    /\ first = Empty
    /\ final = Empty
    /\ submitFailed = FALSE
    /\ AuxIdle

\* ------------------------------------------------------------------ listener
\* The prompt_id test of line 274 left out.
ExecutedMatches_anyJob(m, w) == m.node \in w

\* The membership test of line 274 left out: every executed event of the job
\* is recorded, watched or not.
ExecutedMatches_anyNode(m, w) == m.pid = JobId

\* line 274: the executed event is of the tracked job and of a watched node
ExecutedMatches(m, w) == m.pid = JobId /\ m.node \in w

\* any() in place of all(): one confirmed node is taken for all of them.
ExecutedReady_any(w, confirmed) == \E n \in w : n \in confirmed

\* line 278: all(n in received_executed for n in watch_node_ids)
ExecutedReady(w, confirmed) == AllIn(w, confirmed)

\* any() in place of all(): a batch listing one watched node is enough.
CachedReady_any(m, w) == m.pid = JobId /\ \E n \in w : n \in m.nodes

\* The prompt_id test of line 286 left out.
CachedReady_anyJob(m, w) == AllIn(w, m.nodes)

\* lines 286-288: the batch is of the tracked job and lists every watched node
CachedReady(m, w) == m.pid = JobId /\ AllIn(w, m.nodes)

\* line 302: exec_info.get("queue_remaining") == 0
QueueDrained(m) == m.qr = 0

\* The status branch written like the two success branches.
AfterDrained_interrupts(ior) == IF ior THEN "interrupt" ELSE "signal"

\* lines 302-306: an empty queue sets the event at once; interrupt_on_ready is
\* not read on this path.
AfterDrained(ior) == "signal"

\* The success branches without their request_interrupt() call.
AfterReady_noInterrupt(ior) == "signal"

\* The success branches without their test of interrupt_on_ready.
AfterReady_always(ior) == "interrupt"

\* lines 279-281 and 291-293: request_interrupt() comes before event.set()
AfterReady(ior) == IF ior THEN "interrupt" ELSE "signal"

\* A preview taken for evidence of completion.
ForwardsPreview_signals(cb) == "signal"

\* lines 252 and 310: preview_callback and callable(preview_callback)
ForwardsPreview(cb) == IF cb THEN "preview" ELSE "idle"

\* The websocket worker connects: run_forever opens the socket, on_open sends
\* the two subscription requests.
Connect ==
    /\ ws = "connecting"
    /\ ws' = "open"
    /\ UNCHANGED <<params, received_executed, event, wpc, callerVars, outputs,
                   interrupts, previews, nmsgs, hist, sigBy, doneBy>>

\* The connection attempt fails: on_error prints, run_forever returns.
ConnectFail ==
    /\ ws = "connecting"
    /\ ws' = "closed"
    /\ UNCHANGED <<params, received_executed, event, wpc, callerVars, outputs,
                   interrupts, previews, nmsgs, hist, sigBy, doneBy>>

\* on_message, from its entry to its first call out of the handler
\* (request_interrupt, event.set or preview_callback) or to its return.
OnExecuted(m) ==
    /\ m.type = "executed"
    /\ IF ExecutedMatches(m, watch_node_ids)
       THEN /\ received_executed' = received_executed \cup {m.node}
            /\ IF ExecutedReady(watch_node_ids, received_executed')
               THEN wpc' = AfterReady(interrupt_on_ready) /\ sigBy' = "executed"
               ELSE UNCHANGED <<wpc, sigBy>>
       ELSE UNCHANGED <<received_executed, wpc, sigBy>>

OnCached(m) ==
    /\ m.type = "execution_cached"
    /\ UNCHANGED received_executed
    /\ IF CachedReady(m, watch_node_ids)
       THEN wpc' = AfterReady(interrupt_on_ready) /\ sigBy' = "cached"
       ELSE UNCHANGED <<wpc, sigBy>>

OnStatus(m) ==
    /\ m.type = "status"
    /\ UNCHANGED received_executed
    /\ IF QueueDrained(m)
       THEN wpc' = AfterDrained(interrupt_on_ready) /\ sigBy' = "status"
       ELSE UNCHANGED <<wpc, sigBy>>

OnPreview(m) ==
    /\ m.type \in {"binary", "preview"}
    /\ wpc' = ForwardsPreview(preview_callback)
    /\ UNCHANGED <<received_executed, sigBy>>

\* on_message without its outer try/except: the exception of json.loads
\* leaves the handler and ends the worker's read loop.
OnIgnored_crashes(m) ==
    /\ m.type \in {"progress", "malformed"}
    /\ wpc' = IF m.type = "malformed" THEN "dead" ELSE wpc
    /\ UNCHANGED <<received_executed, sigBy>>

\* any other JSON type falls through every branch; unparsable text raises in
\* json.loads and is caught by the outer except
OnIgnored(m) ==
    /\ m.type \in {"progress", "malformed"}
    /\ UNCHANGED <<received_executed, wpc, sigBy>>

OnMessage(m) ==
    /\ ws = "open"
    /\ wpc = "idle"
    /\ nmsgs < MaxMsgs
    /\ nmsgs' = nmsgs + 1
    /\ execSeen' = IF m.type = "executed" /\ m.pid = JobId /\ m.node \in watch_node_ids
                   THEN execSeen \cup {m.node} ELSE execSeen
    /\ cachedCover' = IF m.type = "execution_cached" /\ m.pid = JobId
                      THEN cachedCover \cup (m.nodes \cap watch_node_ids)
                      ELSE cachedCover
    /\ fullBatch' = (fullBatch \/ (/\ m.type = "execution_cached"
                                   /\ m.pid = JobId
                                   /\ watch_node_ids \subseteq m.nodes))
    /\ lastKind' = KindOf(m)
    /\ UNCHANGED intFailed
    /\ \/ OnExecuted(m)
       \/ OnCached(m)
       \/ OnStatus(m)
       \/ OnPreview(m)
       \/ OnIgnored(m)
    /\ UNCHANGED <<params, event, ws, callerVars, outputs, interrupts, previews,
                   doneBy>>

\* request_interrupt without its try/except: the exception of a failed POST
\* reaches the outer except of on_message and the handler returns.
AfterInterrupt_raises(ok) == IF ok THEN "signal" ELSE "idle"

\* lines 239-245: a failed POST is printed and swallowed, so the handler goes
\* on to event.set() whether the request succeeded or not.
AfterInterrupt(ok) == "signal"

\* request_interrupt: POST /interrupt, answered (ok) or failing.
RequestInterrupt(ok) ==
    /\ wpc = "interrupt"
    /\ interrupts' = interrupts + 1
    /\ intFailed' = (intFailed \/ ~ok)
    /\ wpc' = AfterInterrupt(ok)
    /\ UNCHANGED <<params, received_executed, event, ws, callerVars, outputs,
                   previews, nmsgs, execSeen, cachedCover, fullBatch, lastKind,
                   sigBy, doneBy>>

\* event.set() without the ws.close() that follows it.
SignalDone_noClose ==
    /\ wpc = "signal"
    /\ event' = TRUE
    /\ doneBy' = IF doneBy = "none" THEN sigBy ELSE doneBy
    /\ sigBy' = "none"
    /\ wpc' = "idle"
    /\ UNCHANGED <<params, received_executed, ws, callerVars, outputs,
                   interrupts, previews, nmsgs, hist>>

\* event.set(); ws.close()
SignalDone ==
    /\ wpc = "signal"
    /\ event' = TRUE
    /\ ws' = "closed"
    /\ doneBy' = IF doneBy = "none" THEN sigBy ELSE doneBy
    /\ sigBy' = "none"
    /\ wpc' = "idle"
    /\ UNCHANGED <<params, received_executed, callerVars, outputs, interrupts,
                   previews, nmsgs, hist>>

\* A sink failure that is not caught around the callback and ends the
\* subscription.
PreviewCallback_closes ==
    /\ wpc = "preview"
    /\ previews' = previews + 1
    /\ wpc' = "idle"
    /\ ws' = "closed"
    /\ UNCHANGED <<params, received_executed, event, callerVars, outputs,
                   interrupts, nmsgs, hist, sigBy, doneBy>>

\* preview_callback(preview_data)
PreviewCallback ==
    /\ wpc = "preview"
    /\ previews' = previews + 1
    /\ wpc' = "idle"
    /\ UNCHANGED <<params, received_executed, event, ws, callerVars, outputs,
                   interrupts, nmsgs, hist, sigBy, doneBy>>

\* ------------------------------------------------------------------ server
\* The server appends the outputs of one more node to the job's record.
ServerRecord(n, a) ==
    /\ pc \notin {"done", "idle"}
    /\ n \notin DOMAIN outputs
    /\ outputs' = [k \in DOMAIN outputs \cup {n} |->
                     IF k = n THEN a ELSE outputs[k]]
    /\ UNCHANGED <<params, received_executed, event, ws, wpc, callerVars,
                   interrupts, previews, nmsgs, hist, sigBy, doneBy>>

\* ------------------------------------------------------------------ tracker
\* lines 346-348: the worker thread is started; the caller does not wait for
\* the connection.
StartThread ==
    /\ pc = "start"
    /\ pc' = "wait"
    /\ ws' = "connecting"
    /\ UNCHANGED <<params, received_executed, event, wpc, now, success, result,
                   returned, polls, outcome, pollOutputs, pollResp, outputs,
                   interrupts, previews, nmsgs, hist, sigBy, doneBy>>

\* Time passes while the caller is blocked in event.wait(timeout).
Tick ==
    /\ pc = "wait"
    /\ now < Deadline
    /\ now' = now + 1
    /\ UNCHANGED <<params, received_executed, event, ws, wpc, pc, success,
                   result, returned, polls, outcome, pollOutputs, pollResp, outputs,
                   interrupts, previews, nmsgs, hist, sigBy, doneBy>>

\* How the live wait ended, by what event.wait returned and who set the event.
WaitOutcome(ev, by) ==
    IF ev THEN (IF by = "status" THEN "QUEUE_DRAINED" ELSE "CONFIRMED")
    ELSE "TIMED_OUT"

\* The poll is made without waiting for the live phase.
WaitEnds_noWait(ev, t) == TRUE

\* event.wait() without a timeout.
WaitEnds_noTimeout(ev, t) == ev

\* line 352: event.wait(timeout) returns when the event is set or the
\* deadline has elapsed.
WaitEnds(ev, t) == ev \/ t = Deadline

WaitReturn ==
    /\ pc = "wait"
    /\ WaitEnds(event, now)
    /\ success' = event
    /\ outcome' = WaitOutcome(event, doneBy)
    /\ pc' = "close"
    /\ UNCHANGED <<params, received_executed, event, ws, wpc, now, result,
                   returned, polls, pollOutputs, pollResp, outputs, interrupts,
                   previews, nmsgs, hist, sigBy, doneBy>>

\* lines 354-355: if ws.sock and ws.sock.connected: ws.close()
CloseIfConnected ==
    /\ pc = "close"
    /\ ws' = IF ws = "open" THEN "closed" ELSE ws
    /\ pc' = "poll"
    /\ UNCHANGED <<params, received_executed, event, wpc, now, success, result,
                   returned, polls, outcome, pollOutputs, pollResp, outputs,
                   interrupts, previews, nmsgs, hist, sigBy, doneBy>>

\* The poller without its try/except: a transport failure or an unparsable
\* body raises out of monitor_until_nodes_ready.
AfterPoll_raises(resp) == IF resp = "error" THEN "raised" ELSE "ret"

\* lines 120-142: every path of get_node_outputs_from_history returns, so the
\* caller goes on to its return statement whatever the response was.
AfterPoll(resp) == "ret"

\* line 361: result = get_node_outputs_from_history(prompt_id, watch_node_ids)
PollHistory(resp) ==
    /\ pc = "poll"
    /\ resp = "no_record" => DOMAIN outputs = {}
    /\ result' = GetNodeOutputsFromHistory(resp, outputs, watch_node_ids)
    /\ polls' = polls + 1
    /\ pollOutputs' = outputs
    /\ pollResp' = resp
    /\ pc' = AfterPoll(resp)
    /\ UNCHANGED <<params, received_executed, event, ws, wpc, now, success,
                   returned, outcome, outputs, interrupts, previews, nmsgs, hist, sigBy,
                   doneBy>>

\* line 362: return result if result else {}
Return ==
    /\ pc = "ret"
    /\ returned' = TrackResult(success, result)
    /\ pc' = "done"
    /\ UNCHANGED <<params, received_executed, event, ws, wpc, now, success,
                   result, polls, outcome, pollOutputs, pollResp, outputs, interrupts, previews,
                   nmsgs, hist, sigBy, doneBy>>

\* ------------------------------------------------------------------ spec
Next ==
    \/ StartThread
    \/ Connect
    \/ ConnectFail
    \/ \E m \in Messages : OnMessage(m)
    \/ \E ok \in BOOLEAN : RequestInterrupt(ok)
    \/ SignalDone
    \/ PreviewCallback
    \/ \E n \in Nodes, a \in Artifacts : ServerRecord(n, a)
    \/ Tick
    \/ WaitReturn
    \/ CloseIfConnected
    \/ \E resp \in Responses : PollHistory(resp)
    \/ Return

Spec == Init /\ [][Next]_vars

\* The caller thread runs whenever it can and time passes; nothing is assumed
\* of the worker, the server or the arrival of live events.
FairSpec ==
    /\ Spec
    /\ WF_vars(StartThread)
    /\ WF_vars(Tick)
    /\ WF_vars(WaitReturn)
    /\ WF_vars(CloseIfConnected)
    /\ WF_vars(\E resp \in Responses : PollHistory(resp))
    /\ WF_vars(Return)

\* ------------------------------------------------------------------ generation
\* generate_txt2img and generate_inpaint: submit the workflow, track node "16"
\* (here A) with cancel-on-ready and a preview sink, and track once more,
\* without either, when the first result is empty.
GenWatch == {"A"}

\* The live events of a generation's own job.
GenMessages ==
    {m \in Messages :
        \/ m.type = "executed" /\ m.pid = JobId /\ m.node = "A" /\ m.out = "x"
        \/ m.type = "execution_cached" /\ m.pid = JobId /\ m.nodes = {"A"}
        \/ m.type = "status" /\ m.qr = 0
        \/ m.type = "binary"}

GenInit ==
    /\ watch_node_ids = GenWatch
    /\ interrupt_on_ready = TRUE
    /\ preview_callback = TRUE
    /\ received_executed = {}
    /\ event = FALSE
    /\ ws = "new"
    /\ wpc = "idle"
    /\ pc = "idle"
    /\ now = 0
    /\ success = FALSE
    /\ outputs = Empty
    /\ result = Empty
    /\ returned = Empty
    /\ polls = 0
    /\ interrupts = 0
    /\ previews = 0
    /\ nmsgs = 0
    /\ execSeen = {}
    /\ cachedCover = {}
    /\ fullBatch = FALSE
    /\ lastKind = "none"
    /\ intFailed = FALSE
    /\ sigBy = "none"
    /\ doneBy = "none"
    /\ outcome = "WAITING"
    /\ pollOutputs = Empty
    /\ pollResp = "none"
    /\ gpc = "submit"
    /\ sessions = 0
    /\ first = Empty
    /\ final = Empty
    /\ submitFailed = FALSE
    /\ AuxIdle

trackerVars == <<watch_node_ids, interrupt_on_ready, preview_callback,
                 received_executed, event, ws, wpc, pc, now, success, outputs,
                 result, returned, polls, interrupts, previews, nmsgs, hist,
                 sigBy, doneBy, outcome, pollOutputs, pollResp, aux>>

\* A submission whose failure is not raised: tracking starts all the same.
AfterSubmit_swallows(ok) == "call1"

\* queue_prompt, lines 27-32: a connection error of requests.post and the
\* HTTPError of raise_for_status leave generate_* uncaught.
AfterSubmit(ok) == IF ok THEN "call1" ELSE "raised"

\* prompt_id = queue_prompt(wf, client_id)
QueuePrompt(ok) ==
    /\ gpc = "submit"
    /\ gpc' = AfterSubmit(ok)
    /\ submitFailed' = ~ok
    /\ UNCHANGED <<trackerVars, sessions, first, final>>

\* A call of monitor_until_nodes_ready: a new session with its own result,
\* event, received_executed, socket and worker thread (lines 234-236, 329,
\* 346). The worker of an earlier session is not followed any further.
StartTracking(ior, cb) ==
    /\ interrupt_on_ready' = ior
    /\ preview_callback' = cb
    /\ received_executed' = {}
    /\ event' = FALSE
    /\ ws' = "new"
    /\ wpc' = "idle"
    /\ pc' = "start"
    /\ now' = 0
    /\ success' = FALSE
    /\ result' = Empty
    /\ returned' = Empty
    /\ execSeen' = {}
    /\ cachedCover' = {}
    /\ fullBatch' = FALSE
    /\ lastKind' = "none"
    /\ intFailed' = FALSE
    /\ sigBy' = "none"
    /\ doneBy' = "none"
    /\ outcome' = "WAITING"
    /\ pollOutputs' = Empty
    /\ pollResp' = "none"
    /\ sessions' = sessions + 1
    /\ UNCHANGED <<watch_node_ids, outputs, polls, interrupts, previews, nmsgs,
                   first, final, submitFailed, aux>>

\* txt2img lines 80-86, inpaint lines 171-177: the first tracking call.
FirstCycle ==
    /\ gpc = "call1"
    /\ gpc' = "in1"
    /\ StartTracking(TRUE, TRUE)

\* A retry made whatever the first result was.
NeedsRetry_always(r) == TRUE

\* txt2img line 88, inpaint line 182: if not result
NeedsRetry(r) == DOMAIN r = {}

\* The first call returned: its result is kept unless it is empty.
FirstReturned ==
    /\ gpc = "in1"
    /\ pc = "done"
    /\ first' = returned
    /\ final' = returned
    /\ gpc' = IF NeedsRetry(returned) THEN "call2" ELSE "resolve"
    /\ pc' = IF NeedsRetry(returned) THEN "off" ELSE pc
    /\ UNCHANGED <<watch_node_ids, interrupt_on_ready, preview_callback,
                   received_executed, event, ws, wpc, now, success, outputs,
                   result, returned, polls, interrupts, previews, nmsgs, hist,
                   sigBy, doneBy, outcome, pollOutputs, pollResp, sessions,
                   submitFailed, aux>>

\* A retry made like the first call, with cancel-on-ready.
RetryCycle_cancels ==
    /\ gpc = "call2"
    /\ gpc' = "in2"
    /\ StartTracking(TRUE, FALSE)

\* txt2img lines 91-93, inpaint lines 185-186: time.sleep(2), then the second
\* tracking call, without cancel-on-ready and without a preview sink.
RetryCycle ==
    /\ gpc = "call2"
    /\ gpc' = "in2"
    /\ StartTracking(FALSE, FALSE)

\* The second call returned: its result is taken as it is.
RetryReturned ==
    /\ gpc = "in2"
    /\ pc = "done"
    /\ final' = returned
    /\ gpc' = "resolve"
    /\ UNCHANGED <<trackerVars, sessions, first, submitFailed>>

\* txt2img lines 95-126, inpaint lines 191-265: the result is turned into the
\* (url, path) pair and returned.
Resolve ==
    /\ gpc = "resolve"
    /\ gpc' = "returned"
    /\ UNCHANGED <<trackerVars, sessions, first, final, submitFailed>>

GenNext ==
    \/ \E ok \in BOOLEAN : QueuePrompt(ok)
    \/ FirstCycle
    \/ FirstReturned
    \/ RetryCycle
    \/ RetryReturned
    \/ Resolve
    \/ StartThread
    \/ Connect
    \/ ConnectFail
    \/ \E m \in GenMessages : OnMessage(m)
    \/ \E ok \in BOOLEAN : RequestInterrupt(ok)
    \/ SignalDone
    \/ PreviewCallback
    \/ \E a \in Artifacts : ServerRecord("A", a)
    \/ Tick
    \/ WaitReturn
    \/ CloseIfConnected
    \/ \E resp \in Responses : PollHistory(resp)
    \/ Return

GenSpec == GenInit /\ [][GenNext]_vars

\* The worker thread runs its handler to the end: the calls it makes (the
\* POST /interrupt, the preview sink) return and event.set() follows. Nothing
\* is assumed of the arrival of messages.
WorkerFairSpec ==
    /\ Spec
    /\ WF_vars(\E ok \in BOOLEAN : RequestInterrupt(ok))
    /\ WF_vars(SignalDone)
    /\ WF_vars(PreviewCallback)

\* ------------------------------------------------------------------ claims
\* The mapping a poll answered with resp on the record outs yields for the
\* watch set w, stated pointwise.
IsPollOf(r, resp, outs, w) ==
    /\ \A n \in Nodes :
         n \in DOMAIN r <=>
           (resp = "ok" /\ n \in w /\ n \in DOMAIN outs)
    /\ \A n \in DOMAIN r : r[n] = outs[n]

C2_SubsetOfHistory ==
    pc = "done" =>
        \A n \in DOMAIN returned :
            n \in DOMAIN outputs /\ returned[n] = outputs[n]

\* A non-empty result, with the record grown between the poll and the return.
C2_Witness ==
    /\ pc = "done"
    /\ DOMAIN returned # {}
    /\ DOMAIN outputs # DOMAIN pollOutputs

\* C3: a poll that is answered with the record returns the record's outputs
\* restricted to exactly the watched identifiers the record holds; every key
\* of a tracking result is watched, and watched identifiers the record lacks
\* are omitted.
C3_RestrictedToWatchSet ==
    /\ pc \in {"ret", "done"} /\ pollResp \in {"ok", "no_record"} =>
         /\ DOMAIN result = watch_node_ids \cap DOMAIN pollOutputs
         /\ \A n \in DOMAIN result : result[n] = pollOutputs[n]
    /\ DOMAIN result \subseteq watch_node_ids
    /\ DOMAIN returned \subseteq watch_node_ids

\* The record holds an unwatched node beside the watched one.
C3_Witness ==
    /\ pc = "done"
    /\ watch_node_ids = {"A"}
    /\ DOMAIN pollOutputs = {"A", "B"}
    /\ DOMAIN returned = {"A"}

\* The handler that just ran is about to report success by the given path.
Signals(path) == wpc' \in {"interrupt", "signal"} /\ sigBy' = path

\* C4: with watch set {A, B}, an execution_cached batch of the tracked job
\* that does not list every watched node leaves the done signal unset and the
\* subscription open (the handler returns without signalling), and success
\* is signalled only once every watched node is covered by executed events
\* or by one batch.
C4_CacheGating ==
    /\ [][\A m \in CachedMsgs :
            (OnMessage(m) /\ m.pid = JobId
                          /\ ~(watch_node_ids \subseteq m.nodes)) =>
                (wpc' = "idle" /\ event' = event /\ ws' = ws /\ ~event')]_vars
    /\ [](sigBy \in {"executed", "cached"} \/ doneBy \in {"executed", "cached"}
            => (watch_node_ids \subseteq execSeen \/ fullBatch))

\* A batch listing only A was handled for the watch set {A, B}: still waiting.
C4_Witness ==
    /\ watch_node_ids = {"A", "B"}
    /\ cachedCover = {"A"}
    /\ nmsgs = 1
    /\ wpc = "idle"
    /\ ~event
    /\ ws = "open"
    /\ pc = "wait"

\* C5: an execution_cached event makes the listener signal success if and
\* only if it carries the tracked job id and its single batch lists every
\* watched node; batches are not accumulated.
C5_CachedSingleBatch ==
    /\ [][\A m \in CachedMsgs :
            OnMessage(m) =>
                (Signals("cached") <=>
                    (m.pid = JobId /\ watch_node_ids \subseteq m.nodes))]_vars
    /\ [](sigBy = "cached" \/ doneBy = "cached" => fullBatch)

\* Two batches of the job, {A} and {B}, were handled for the watch set {A, B}:
\* their union covers it and nothing was signalled.
C5_Witness ==
    /\ watch_node_ids = {"A", "B"}
    /\ cachedCover = {"A", "B"}
    /\ ~fullBatch
    /\ execSeen = {}
    /\ nmsgs = 2
    /\ wpc = "idle"
    /\ ~event
    /\ ws = "open"

\* C6: the executed path signals success exactly when every watched node has
\* received an executed event of the tracked job, and the signal is given by
\* the event that completes the coverage.
C6_ExecutedCoverage ==
    /\ [][\A m \in ExecutedMsgs :
            OnMessage(m) =>
                (Signals("executed") <=>
                    (/\ m.pid = JobId
                     /\ m.node \in watch_node_ids
                     /\ watch_node_ids \subseteq execSeen'))]_vars
    /\ [](received_executed = execSeen)
    /\ [](sigBy = "executed" \/ doneBy = "executed"
            => watch_node_ids \subseteq execSeen)

\* Both watched nodes were executed and the executed path set the done signal.
C6_Witness ==
    /\ watch_node_ids = {"A", "B"}
    /\ execSeen = {"A", "B"}
    /\ doneBy = "executed"
    /\ event

\* C7: for the watch set {A, B}, an executed event for A together with an
\* execution_cached batch of the same job that covers B makes the tracker
\* signal completion.
C7_MixedCoverageSignals ==
    (/\ watch_node_ids = {"A", "B"}
     /\ "A" \in execSeen
     /\ "B" \in cachedCover)
        => (sigBy \in {"executed", "cached"} \/ doneBy \in {"executed", "cached"})

\* C8: a status event reporting queue_remaining == 0 makes the handler set the
\* done signal and close the subscription without touching the confirmed set
\* and without a cancellation request, and the caller's wait ends as soon as
\* the signal is set, whatever remains of the deadline.
C8_QueueDrained ==
    /\ [][\A m \in StatusMsgs :
            (OnMessage(m) /\ m.qr = 0) =>
                /\ wpc' = "signal" /\ sigBy' = "status"
                /\ received_executed' = received_executed
                /\ interrupts' = interrupts]_vars
    /\ [][(sigBy = "status" /\ sigBy' # "status") =>
                /\ event' /\ ws' = "closed"
                /\ received_executed' = received_executed
                /\ interrupts' = interrupts]_vars
    /\ [](pc = "wait" /\ event => ENABLED WaitReturn)
    /\ [](outcome = "QUEUE_DRAINED" /\ pc \in {"ret", "done"} => polls = 1)

\* The queue drained before any executed event and before the deadline; the
\* call polled and returned.
C8_Witness ==
    /\ pc = "done"
    /\ outcome = "QUEUE_DRAINED"
    /\ doneBy = "status"
    /\ now < Deadline
    /\ execSeen = {}
    /\ received_executed = {}
    /\ interrupts = 0
    /\ interrupt_on_ready
    /\ polls = 1

\* C9: track() never waits indefinitely: whether or not live events arrive,
\* the caller leaves the live wait no later than the deadline, makes its one
\* history poll and returns.
C9_AlwaysReturns ==
    /\ [](pc = "wait" => now <= Deadline)
    /\ [](pc = "wait" /\ now = Deadline => ENABLED WaitReturn)
    /\ <>(pc = "done" /\ polls = 1)

\* No live event was ever delivered; the call returned at the deadline after
\* its single poll.
C9_Witness ==
    /\ pc = "done"
    /\ nmsgs = 0
    /\ ~event
    /\ now = Deadline
    /\ outcome = "TIMED_OUT"
    /\ polls = 1

\* C10: deadline expiry without a listener signal is a normal end of the
\* wait: the call polls history once and, when the poll is answered, returns
\* every watched output the record holds at that moment, also those whose
\* live events never arrived.
C10_TimeoutPollsHistory ==
    (outcome = "TIMED_OUT" /\ pc = "done") =>
        /\ polls = 1
        /\ pollResp = "ok" =>
             /\ DOMAIN returned = watch_node_ids \cap DOMAIN pollOutputs
             /\ \A n \in DOMAIN returned : returned[n] = pollOutputs[n]
        /\ pollResp # "ok" => returned = Empty

\* The deadline elapsed with no live event at all, and the call returned the
\* outputs of both watched nodes from the record.
C10_Witness ==
    /\ pc = "done"
    /\ outcome = "TIMED_OUT"
    /\ ~success
    /\ nmsgs = 0
    /\ watch_node_ids = {"A", "B"}
    /\ DOMAIN returned = {"A", "B"}

\* The completion state of a session and its traffic to the server.
completion == <<received_executed, event, ws, interrupts>>

\* C12: with cancel-on-ready, when the listener reports success (every watched
\* node executed, or all of them in one cached batch) the cancellation request
\* is issued before the done signal is set, hence before the caller can see
\* CONFIRMED and poll.
C12_InterruptBeforeSignal ==
    /\ [][(interrupt_on_ready /\ ~event /\ event'
              /\ sigBy \in {"executed", "cached"}) =>
                (interrupts >= 1 /\ interrupts' = interrupts)]_vars
    /\ [](interrupt_on_ready /\ outcome = "CONFIRMED" => interrupts >= 1)
    /\ [](interrupt_on_ready /\ sigBy \in {"executed", "cached"}
            /\ wpc = "interrupt" => ~event)

\* Cancel-on-ready: the request went out, the signal was set after it, the
\* caller saw CONFIRMED and polled.
C12_Witness ==
    /\ interrupt_on_ready
    /\ interrupts = 1
    /\ doneBy \in {"executed", "cached"}
    /\ outcome = "CONFIRMED"
    /\ polls = 1

\* C13: over one track() call at most one cancellation request is sent,
\* whatever live events arrive: once success is signalled the subscription is
\* closed and no further event is handled.
C13_SingleInterrupt ==
    /\ [](interrupts <= 1)
    /\ [](event => ws = "closed")
    /\ [][event => nmsgs' = nmsgs]_vars

\* One request was sent and the done signal set while the server still had
\* events to deliver.
C13_Witness ==
    /\ interrupts = 1
    /\ event
    /\ nmsgs < MaxMsgs
    /\ pc = "done"

\* C14: a failing cancellation request changes nothing of the outcome: the
\* handler still sets the done signal and closes the subscription, the poll is
\* still made and its answer returned; nothing is raised.
C14_InterruptFailureHarmless ==
    /\ [][(wpc = "interrupt" /\ wpc' # "interrupt") =>
                (wpc' = "signal" /\ sigBy' = sigBy /\ event' = event
                    /\ ws' = ws /\ received_executed' = received_executed)]_vars
    /\ [](wpc = "signal" => ENABLED SignalDone)
    /\ [](intFailed /\ wpc = "idle" => event /\ ws = "closed")
    /\ [](intFailed /\ pc \in {"ret", "done"} => polls = 1)
    /\ [](intFailed /\ pc = "done" =>
            IsPollOf(returned, pollResp, pollOutputs, watch_node_ids))

\* The cancellation request failed; the signal was set, the subscription
\* closed, and the call returned a non-empty poll result.
C14_Witness ==
    /\ intFailed
    /\ event
    /\ ws = "closed"
    /\ outcome = "CONFIRMED"
    /\ pc = "done"
    /\ DOMAIN returned # {}

\* C15: on every exit path of track() the subscription is closed before the
\* call returns; no subscription is open after the return.
C15_ClosedOnReturn ==
    pc = "done" => ws # "open"

\* C16: preview frames never block completion: handling one leaves the
\* completion state as it was and returns the worker to its read loop, so once
\* every watched node has had its executed event the done signal is
\* eventually set, however many previews came before or in between.
C16_PreviewNeverBlocks ==
    /\ [][\A m \in OtherMsgs :
            (OnMessage(m) /\ m.type \in {"binary", "preview"}) =>
                (wpc' \in {"idle", "preview"} /\ sigBy' = sigBy
                    /\ completion' = completion)]_vars
    /\ [][(wpc = "preview" /\ wpc' # "preview") =>
                (wpc' = "idle" /\ sigBy' = sigBy /\ completion' = completion)]_vars
    /\ ((wpc = "preview") ~> (wpc = "idle"))
    /\ ((watch_node_ids \subseteq execSeen) ~> event)

\* A preview frame was forwarded and the executed events then completed the
\* coverage of the watch set, with the done signal set.
C16_Witness ==
    /\ previews >= 1
    /\ watch_node_ids \subseteq execSeen
    /\ doneBy = "executed"
    /\ event

\* C17: a malformed message is dropped: the handler returns without closing
\* the subscription, setting the done signal, requesting cancellation or
\* changing the confirmed set, and the next message is still handled.
C17_MalformedDropped ==
    /\ [][\A m \in OtherMsgs :
            (OnMessage(m) /\ m.type = "malformed") =>
                (wpc' = "idle" /\ sigBy' = sigBy /\ previews' = previews
                    /\ completion' = completion)]_vars
    /\ [](lastKind = "malformed" /\ ws = "open" /\ nmsgs < MaxMsgs =>
            \A m \in Messages : ENABLED OnMessage(m))

\* A malformed message was handled: the subscription is open and the caller
\* is still waiting.
C17_Witness ==
    /\ lastKind = "malformed"
    /\ ws = "open"
    /\ wpc = "idle"
    /\ ~event
    /\ pc = "wait"
    /\ interrupts = 0

\* C18: the history poller never raises: a non-200 response, a transport
\* failure, an unparsable body and a body without the job id each give the
\* empty mapping, and the poll changes nothing of the tracker's state.
C18_PollerNeverRaises ==
    /\ [](pc # "raised")
    /\ [](pc \in {"ret", "done"} /\ pollResp # "ok" => result = Empty)
    /\ [][(pc = "poll" /\ pc' # "poll") =>
                (pc' = "ret" /\ completion' = completion /\ wpc' = wpc
                    /\ outputs' = outputs)]_vars

\* The poll met a transport failure and the call returned the empty mapping
\* although the record holds the watched outputs.
C18_Witness ==
    /\ pc = "done"
    /\ pollResp = "error"
    /\ returned = Empty
    /\ watch_node_ids \subseteq DOMAIN pollOutputs

\* C19: an executed or execution_cached event of another job is ignored, even
\* if it names every watched node: confirmed set, done signal and subscription
\* stay as they were and no cancellation is requested.
C19_ForeignJobIgnored ==
    [][\A m \in ExecutedMsgs \cup CachedMsgs :
          (OnMessage(m) /\ m.pid = OtherId) =>
              (wpc' = "idle" /\ sigBy' = sigBy /\ completion' = completion)]_vars

\* An event of another job was handled: nothing confirmed, still waiting.
C19_Witness ==
    /\ lastKind = "foreign"
    /\ nmsgs = 1
    /\ received_executed = {}
    /\ wpc = "idle"
    /\ ~event
    /\ ws = "open"

\* C11: a generation tracks a second time exactly when its first tracking
\* result is empty, never a third time, and goes on with the second result
\* whatever it is; a non-empty first result is used as it is, without retry.
C11_RetryIffFirstEmpty ==
    /\ sessions <= 2
    /\ (sessions = 2 => (first = Empty /\ gpc \in {"in2", "resolve", "returned"}))
    /\ (gpc \in {"resolve", "returned"} =>
            IF first = Empty
            THEN sessions = 2 /\ final = returned
            ELSE sessions = 1 /\ final = first)

\* The first call came back empty, the retry was made and its result, here a
\* non-empty one, is what the generation returned with.
C11_Witness ==
    /\ gpc = "returned"
    /\ sessions = 2
    /\ first = Empty
    /\ final # Empty

\* C20: when the submission fails, the failure leaves the generation at once:
\* no tracking session is started, the history is not polled, no cancellation
\* is requested and the submission is not tried again.
C20_SubmitFailurePropagates ==
    submitFailed =>
        /\ gpc = "raised"
        /\ sessions = 0
        /\ pc = "idle"
        /\ ws = "new"
        /\ polls = 0
        /\ interrupts = 0
        /\ ~ENABLED (\E ok \in BOOLEAN : QueuePrompt(ok))

\* queue_prompt failed and the generation ended with the failure raised.
C20_Witness ==
    /\ submitFailed
    /\ gpc = "raised"

\* ------------------------------------------------------------------ two calls
\* Two calls of monitor_until_nodes_ready running at the same time, each from
\* its own thread. The call followed step by step tracks {A, B}; the other one
\* (peer) tracks {A}, and its handler and its caller are taken a run at a time.
\* result, event, received_executed and ws are locals of a call (lines 234-236
\* and 329), so each call has its own.
PeerWatch == {"A"}

PairMessages ==
    {m \in Messages :
        \/ m.type = "executed" /\ m.pid = JobId /\ m.out = "x"
        \/ m.type = "execution_cached" /\ m.pid = JobId /\ "A" \in m.nodes
        \/ m.type = "status" /\ m.qr = 0}

PairInit ==
    /\ watch_node_ids = {"A", "B"}
    /\ interrupt_on_ready = TRUE
    /\ preview_callback = FALSE
    /\ received_executed = {}
    /\ event = FALSE
    /\ ws = "new"
    /\ wpc = "idle"
    /\ pc = "start"
    /\ now = 0
    /\ success = FALSE
    /\ outputs = Empty
    /\ result = Empty
    /\ returned = Empty
    /\ polls = 0
    /\ interrupts = 0
    /\ previews = 0
    /\ nmsgs = 0
    /\ execSeen = {}
    /\ cachedCover = {}
    /\ fullBatch = FALSE
    /\ lastKind = "none"
    /\ intFailed = FALSE
    /\ sigBy = "none"
    /\ doneBy = "none"
    /\ outcome = "WAITING"
    /\ pollOutputs = Empty
    /\ pollResp = "none"
    /\ gpc = "direct"
    /\ sessions = 0
    /\ first = Empty
    /\ final = Empty
    /\ submitFailed = FALSE
    /\ peer = [NoPeer EXCEPT !.pc = "start", !.watch = PeerWatch]
    /\ NoPreviews
    /\ generated = NoArtifact
    /\ UiIdle

\* The locals of the call that is followed step by step, and the server.
ownVars == <<watch_node_ids, interrupt_on_ready, preview_callback,
             received_executed, event, ws, wpc, pc, now, success, outputs,
             result, returned, polls, interrupts, previews, hist, sigBy,
             doneBy, outcome, pollOutputs, pollResp, genVars, preview_func,
             frame, sunk, shown, generated, uiVars>>

\* lines 274-275: the confirmed set after on_message has handled m.
Confirms(m, w, confirmed) ==
    IF m.type = "executed" /\ ExecutedMatches(m, w)
    THEN confirmed \cup {m.node}
    ELSE confirmed

\* lines 278-306: the run of on_message for m ends in event.set(); ws.close().
SetsEvent(m, w, confirmed) ==
    \/ /\ m.type = "executed"
       /\ ExecutedMatches(m, w)
       /\ ExecutedReady(w, Confirms(m, w, confirmed))
    \/ m.type = "execution_cached" /\ CachedReady(m, w)
    \/ m.type = "status" /\ QueueDrained(m)

\* lines 346-348 of the other call.
PeerStartThread ==
    /\ peer.pc = "start"
    /\ peer' = [peer EXCEPT !.pc = "wait", !.ws = "connecting"]
    /\ UNCHANGED <<ownVars, nmsgs>>

PeerConnect ==
    /\ peer.ws = "connecting"
    /\ peer' = [peer EXCEPT !.ws = "open"]
    /\ UNCHANGED <<ownVars, nmsgs>>

\* A handler whose confirmed set and event are names of the module, shared by
\* every call, and not locals of the call.
PeerOnMessage_shared(m) ==
    /\ peer.ws = "open"
    /\ nmsgs < MaxMsgs
    /\ nmsgs' = nmsgs + 1
    /\ received_executed' = Confirms(m, peer.watch, received_executed)
    /\ event' = (event \/ SetsEvent(m, peer.watch, received_executed))
    /\ peer' = [peer EXCEPT
                  !.ws = IF SetsEvent(m, peer.watch, received_executed)
                         THEN "closed" ELSE @]
    /\ UNCHANGED <<watch_node_ids, interrupt_on_ready, preview_callback, ws,
                   wpc, pc, now, success, outputs, result, returned, polls,
                   interrupts, previews, hist, sigBy, doneBy, outcome,
                   pollOutputs, pollResp, genVars, preview_func, frame,
                   sunk, shown, generated, uiVars>>

\* on_message of the other call (its interrupt_on_ready is False): the
\* closure writes the received_executed, event and ws of its own call.
PeerOnMessage(m) ==
    /\ peer.ws = "open"
    /\ nmsgs < MaxMsgs
    /\ nmsgs' = nmsgs + 1
    /\ peer' = [peer EXCEPT
                  !.received_executed = Confirms(m, peer.watch, @),
                  !.event = (@ \/ SetsEvent(m, peer.watch, peer.received_executed)),
                  !.ws = IF SetsEvent(m, peer.watch, peer.received_executed)
                         THEN "closed" ELSE @]
    /\ UNCHANGED ownVars

\* lines 352-362 of the other call: the wait ends, the subscription is closed
\* if connected, the history is polled and the result returned.
PeerReturn(resp) ==
    /\ peer.pc = "wait"
    /\ \E t \in 0..Deadline : WaitEnds(peer.event, t)
    /\ resp = "no_record" => DOMAIN outputs = {}
    /\ peer' = [peer EXCEPT
                  !.pc = "done",
                  !.ws = IF @ = "open" THEN "closed" ELSE @,
                  !.returned = TrackResult(peer.event,
                      GetNodeOutputsFromHistory(resp, outputs, peer.watch))]
    /\ UNCHANGED <<ownVars, nmsgs>>

PairNext ==
    \/ StartThread
    \/ Connect
    \/ ConnectFail
    \/ \E m \in PairMessages : OnMessage(m)
    \/ \E ok \in BOOLEAN : RequestInterrupt(ok)
    \/ SignalDone
    \/ \E n \in Nodes : ServerRecord(n, "x")
    \/ Tick
    \/ WaitReturn
    \/ CloseIfConnected
    \/ \E resp \in Responses : PollHistory(resp)
    \/ Return
    \/ PeerStartThread
    \/ PeerConnect
    \/ \E m \in PairMessages : PeerOnMessage(m)
    \/ \E resp \in Responses : PeerReturn(resp)

PairSpec == PairInit /\ [][PairNext]_vars

\* What a call shares between its worker and its caller, with its result.
session == <<received_executed, event, ws, result, returned>>

\* C21: the confirmed set and the done signal of a call are written by its
\* worker only, never by its caller, and two calls running at the same time
\* have each their own: a step of one call, an event delivered to it included,
\* leaves the confirmed set, done signal, subscription and result of the other
\* as they were.
C21_SessionsIsolated ==
    [][/\ (peer' # peer => session' = session)
       /\ (session' # session => peer' = peer)
       /\ (pc' # pc => UNCHANGED <<received_executed, event>>)
       /\ (peer'.pc # peer.pc =>
              /\ peer'.received_executed = peer.received_executed
              /\ peer'.event = peer.event)]_vars

\* The other call was given the event that covers its watch set and has its
\* done signal set, while the first call, connected and waiting, has confirmed
\* nothing and is not signalled.
C21_Witness ==
    /\ peer.event
    /\ peer.received_executed = {"A"}
    /\ pc = "wait"
    /\ ws = "open"
    /\ ~event
    /\ received_executed = {}

\* C22: the retry after an empty first result is a pause and one more history
\* poll, two polls a generation at most; it opens no subscription and starts
\* no live wait of its own.
C22_RetryOnlyPolls ==
    /\ polls <= 2
    /\ (sessions = 2 => (ws = "new" /\ pc # "wait"))

\* ------------------------------------------------------------------ previews
\* Length of the header of a binary preview frame (message[8:], line 255).
HeaderLen == 8
\* Longest payload after the header of a binary frame, and longest image of a
\* JSON preview message, in bytes.
MaxPayload == 2
MaxImage == 5

\* Binary frames: the first bytes of one stream whose i-th byte is i, so that a
\* payload cut at another offset is another payload.
BinaryFrames == {[i \in 1..k |-> i] : k \in 0..(HeaderLen + MaxPayload)}

\* Images: the first bytes of one stream of varied bytes (77, 154, 231, 52,
\* 129, 206, ...), from no byte at all to more than one group of three.
Images == {[i \in 1..k |-> (i * 77) % 256] : k \in 0..MaxImage}

\* The base64 alphabet, by value.
B64Alphabet ==
    <<
      "A", "B", "C", "D", "E", "F", "G", "H", "I", "J", "K", "L", "M",
      "N", "O", "P", "Q", "R", "S", "T", "U", "V", "W", "X", "Y", "Z",
      "a", "b", "c", "d", "e", "f", "g", "h", "i", "j", "k", "l", "m",
      "n", "o", "p", "q", "r", "s", "t", "u", "v", "w", "x", "y", "z",
      "0", "1", "2", "3", "4", "5", "6", "7", "8", "9", "+", "/"
    >>
B64Char(v) == B64Alphabet[v + 1]
B64Value(c) == (CHOOSE i \in 1..Len(B64Alphabet) : B64Alphabet[i] = c) - 1

\* What the server sends: three bytes make four characters, and a last group
\* of one or two bytes is padded with "=".
RECURSIVE B64Encode(_)
B64Encode(b) ==
    IF Len(b) = 0 THEN << >>
    ELSE IF Len(b) = 1
    THEN <<B64Char(b[1] \div 4), B64Char((b[1] % 4) * 16), "=", "=">>
    ELSE IF Len(b) = 2
    THEN <<B64Char(b[1] \div 4),
           B64Char((b[1] % 4) * 16 + b[2] \div 16),
           B64Char((b[2] % 16) * 4), "=">>
    ELSE <<B64Char(b[1] \div 4),
           B64Char((b[1] % 4) * 16 + b[2] \div 16),
           B64Char((b[2] % 16) * 4 + b[3] \div 64),
           B64Char(b[3] % 64)>> \o B64Encode(SubSeq(b, 4, Len(b)))

\* base64.b64decode(text), line 316: characters are taken four at a time, a
\* complete padding ends the input, and text that ends inside a group raises
\* (ok = FALSE).
RECURSIVE A2B(_, _, _, _, _, _)
A2B(t, i, quad, pads, left, out) ==
    IF i > Len(t) THEN [ok |-> quad = 0, bytes |-> out]
    ELSE IF t[i] = "="
    THEN IF quad >= 2 /\ quad + pads + 1 >= 4
         THEN [ok |-> TRUE, bytes |-> out]
         ELSE A2B(t, i + 1, quad, IF quad >= 2 THEN pads + 1 ELSE pads, left, out)
    ELSE LET v == B64Value(t[i]) IN
         IF quad = 0 THEN A2B(t, i + 1, 1, 0, v, out)
         ELSE IF quad = 1
         THEN A2B(t, i + 1, 2, 0, v % 16, Append(out, left * 4 + v \div 16))
         ELSE IF quad = 2
         THEN A2B(t, i + 1, 3, 0, v % 4, Append(out, left * 16 + v \div 4))
         ELSE A2B(t, i + 1, 0, 0, 0, Append(out, left * 64 + v))

B64Decode(t) == A2B(t, 1, 0, 0, 0, << >>)

\* The image field of JSON preview messages: encoded images, the same texts
\* with their last character lost, and the empty text (also: no image field).
Texts ==
    {B64Encode(b) : b \in Images}
        \cup {SubSeq(B64Encode(b), 1, Len(B64Encode(b)) - 1) : b \in Images \ {<< >>}}

\* Preview messages; img: the image library can open the forwarded bytes.
PreviewFrames ==
    [kind : {"binary"}, body : BinaryFrames, img : BOOLEAN]
        \cup [kind : {"json"}, body : Texts, img : BOOLEAN]

\* A header taken to be one byte longer.
Payload_longHeader(message) == SubSeq(message, HeaderLen + 2, Len(message))

\* line 255: preview_data = message[8:]
Payload(message) == SubSeq(message, HeaderLen + 1, Len(message))

\* lines 252-260 and 310-317: what preview_callback is called with, if it is
\* called: the frame after its header; the decoded image of a JSON preview
\* that has a non-empty image the decoder accepts.
SinkArgs(m, cb) ==
    IF ~cb THEN << >>
    ELSE IF m.kind = "binary" THEN <<Payload(m.body)>>
    ELSE IF m.body = << >> THEN << >>
    ELSE IF B64Decode(m.body).ok THEN <<B64Decode(m.body).bytes>>
    ELSE << >>

\* Image.open(io.BytesIO(preview_data)) succeeds: never on no bytes at all.
IsImage(bytes, img) == Len(bytes) > 0 /\ img

\* process_preview, txt2img lines 67-77: preview_func is called with the
\* opened image when there is a preview_func and the bytes open as an image.
ShownArgs(args, func, img) ==
    IF args # << >> /\ func /\ IsImage(args[1], img) THEN args ELSE << >>

\* lines 261-264 and 320-322 (and txt2img lines 75-77): whatever is raised
\* while a preview is handled is caught; the handler returns.
AfterSink(raises) == "idle"

\* on_message for a binary frame or a JSON preview message, with the call of
\* preview_callback(process_preview) it makes; raises: preview_func fails.
DeliverPreview(m, raises) ==
    /\ ws = "open"
    /\ wpc = "idle"
    /\ nmsgs < MaxMsgs
    /\ nmsgs' = nmsgs + 1
    /\ lastKind' = "preview"
    /\ frame' = m
    /\ sunk' = SinkArgs(m, preview_callback)
    /\ shown' = ShownArgs(sunk', preview_func, m.img)
    /\ previews' = previews + Len(sunk')
    /\ wpc' = AfterSink(raises)
    /\ UNCHANGED <<watch_node_ids, interrupt_on_ready, preview_callback,
                   received_executed, event, ws, callerVars, outputs,
                   interrupts, execSeen, cachedCover, fullBatch, intFailed,
                   sigBy, doneBy, genVars, peer, preview_func, generated,
                   uiVars>>

\* A tracking call of generate_*'s first cycle, with process_preview as sink.
PreviewInit ==
    /\ watch_node_ids = GenWatch
    /\ interrupt_on_ready = TRUE
    /\ preview_callback = TRUE
    /\ received_executed = {}
    /\ event = FALSE
    /\ ws = "new"
    /\ wpc = "idle"
    /\ pc = "start"
    /\ now = 0
    /\ success = FALSE
    /\ outputs = Empty
    /\ result = Empty
    /\ returned = Empty
    /\ polls = 0
    /\ interrupts = 0
    /\ previews = 0
    /\ nmsgs = 0
    /\ execSeen = {}
    /\ cachedCover = {}
    /\ fullBatch = FALSE
    /\ lastKind = "none"
    /\ intFailed = FALSE
    /\ sigBy = "none"
    /\ doneBy = "none"
    /\ outcome = "WAITING"
    /\ pollOutputs = Empty
    /\ pollResp = "none"
    /\ gpc = "direct"
    /\ sessions = 0
    /\ first = Empty
    /\ final = Empty
    /\ submitFailed = FALSE
    /\ peer = NoPeer
    /\ generated = NoArtifact
    /\ UiIdle
    /\ preview_func \in BOOLEAN
    /\ frame = NoFrame
    /\ sunk = << >>
    /\ shown = << >>

PreviewNext ==
    \/ StartThread
    \/ Connect
    \/ \E m \in PreviewFrames, raises \in BOOLEAN : DeliverPreview(m, raises)
    \/ Tick
    \/ WaitReturn
    \/ CloseIfConnected
    \/ \E resp \in Responses : PollHistory(resp)
    \/ Return

PreviewSpec == PreviewInit /\ [][PreviewNext]_vars

\* C23: given a sink, a binary frame is forwarded without its first 8 bytes
\* (as no bytes at all when it has 8 or fewer), and a JSON preview as the bytes
\* its image text encodes; a text that is no complete encoding is forwarded
\* not at all; preview_func is called only with bytes that open as an image;
\* and whatever fails on the way, the handler returns and leaves the
\* subscription open for the next message.
C23_PreviewForwarding ==
    /\ [](frame.kind = "binary" =>
            sunk = <<[i \in 1..(IF Len(frame.body) > 8
                                THEN Len(frame.body) - 8 ELSE 0) |->
                        frame.body[i + 8]]>>)
    /\ [](frame.kind = "json" =>
            IF \E b \in Images : b # << >> /\ frame.body = B64Encode(b)
            THEN \A b \in Images : frame.body = B64Encode(b) => sunk = <<b>>
            ELSE sunk = << >>)
    /\ [](shown # << >> =>
            (preview_func /\ frame.img /\ shown = sunk /\ shown[1] # << >>))
    /\ [][frame' # frame \/ nmsgs' # nmsgs =>
            (wpc' = "idle" /\ ws' = "open" /\ event' = event)]_vars

\* The second message of the session was a binary frame of the header alone:
\* the sink was given no bytes, nothing was shown although a preview_func was
\* passed, and the subscription is open.
C23_Witness ==
    /\ nmsgs = 2
    /\ frame.kind = "binary"
    /\ Len(frame.body) = 8
    /\ frame.img
    /\ sunk = <<<< >>>>
    /\ shown = << >>
    /\ preview_func
    /\ ws = "open"
    /\ pc = "wait"

\* C24: a binary preview frame, a JSON preview message or a message of an
\* unrecognized type leaves the completion state as it was, through the call
\* of the sink too: confirmed set, done signal and subscription are unchanged,
\* no cancellation is requested and none is about to be.
C24_OtherMessagesNoEffect ==
    [][/\ \A m \in OtherMsgs :
            (OnMessage(m) /\ m.type \in {"binary", "preview", "progress"}) =>
                /\ completion' = completion
                /\ sigBy' = sigBy
                /\ wpc' \in {"idle", "preview"}
       /\ PreviewCallback =>
                (completion' = completion /\ sigBy' = sigBy /\ wpc' = "idle")]_vars

\* Two previews were handled and handed to the sink: the session is still
\* waiting, connected, with nothing confirmed and no cancellation requested.
C24_Witness ==
    /\ lastKind = "preview"
    /\ previews = 2
    /\ nmsgs = 2
    /\ received_executed = {}
    /\ ~event
    /\ ws = "open"
    /\ wpc = "idle"
    /\ pc = "wait"
    /\ interrupts = 0

\* ------------------------------------------------------------------ node output
\* monitor_websocket_for_node_output (lines 144-212). Its thread start, wait
\* and close (lines 200-210) are the statements of lines 328-355, so
\* StartThread, Connect, ConnectFail, Tick, WaitReturn and CloseIfConnected
\* stand for them, and SignalDone for the event.set(); ws.close() of lines
\* 195-196. Here result maps a node to the list of its output items.
\* Most entries of the output of one executed event.
MaxEntries == 2

\* A value of the output dict: a list of items (list = TRUE) or anything else,
\* which isinstance(value, list) rejects.
Values ==
    {[list |-> TRUE, items |-> << >>],
     [list |-> TRUE, items |-> <<"x">>],
     [list |-> TRUE, items |-> <<"y", "x">>],
     [list |-> FALSE, items |-> <<"y">>]}

\* d.get("output", {}): the values of the dict in the order of its items().
Payloads == UNION {[1..k -> Values] : k \in 0..MaxEntries}

OutputMsgs ==
    [type : {"executed"}, pid : {JobId, OtherId}, node : Nodes, output : Payloads]
        \cup [type : {"status", "malformed"}, pid : {JobId}, node : {NoNode},
               output : {<< >>}]

\* The isinstance test left out: every value is taken for a list.
RECURSIVE Flatten_all(_)
Flatten_all(output) ==
    IF output = << >> THEN << >>
    ELSE Head(output).items \o Flatten_all(Tail(output))

\* lines 191-194: result[node_id] = [], then extend by every value that is a
\* list, in the order of output_data.items().
RECURSIVE Flatten(_)
Flatten(output) ==
    IF output = << >> THEN << >>
    ELSE (IF Head(output).list THEN Head(output).items ELSE << >>)
             \o Flatten(Tail(output))

\* lines 184-189: an executed event of the expected job and of a watched node
NodeOutputMatches(m, w) == m.type = "executed" /\ m.pid = JobId /\ m.node \in w

\* on_message, lines 177-198, up to event.set()
OnNodeOutput(m) ==
    /\ ws = "open"
    /\ wpc = "idle"
    /\ nmsgs < MaxMsgs
    /\ nmsgs' = nmsgs + 1
    /\ IF NodeOutputMatches(m, watch_node_ids)
       THEN /\ result' = [n \in DOMAIN result \cup {m.node} |->
                            IF n = m.node THEN Flatten(m.output) ELSE result[n]]
            /\ execSeen' = execSeen \cup {m.node}
            /\ wpc' = "signal"
            /\ sigBy' = "executed"
       ELSE UNCHANGED <<result, execSeen, wpc, sigBy>>
    /\ UNCHANGED <<params, received_executed, event, ws, pc, now, success,
                   returned, polls, outcome, pollOutputs, pollResp, outputs,
                   interrupts, previews, cachedCover, fullBatch, lastKind,
                   intFailed, doneBy>>

\* A return that does not read success.
NodeOutputResult_always(ok, r) == r

\* line 212: return result if success else {}
NodeOutputResult(ok, r) == IF ok THEN r ELSE Empty

ReturnNodeOutput ==
    /\ pc = "poll"
    /\ returned' = NodeOutputResult(success, result)
    /\ pc' = "done"
    /\ UNCHANGED <<params, received_executed, event, ws, wpc, now, success,
                   result, polls, outcome, pollOutputs, pollResp, outputs,
                   interrupts, previews, nmsgs, hist, sigBy, doneBy>>

NodeOutputInit ==
    /\ watch_node_ids \in WatchSets
    /\ interrupt_on_ready = FALSE
    /\ preview_callback = FALSE
    /\ received_executed = {}
    /\ event = FALSE
    /\ ws = "new"
    /\ wpc = "idle"
    /\ pc = "start"
    /\ now = 0
    /\ success = FALSE
    /\ outputs = Empty
    /\ result = Empty
    /\ returned = Empty
    /\ polls = 0
    /\ interrupts = 0
    /\ previews = 0
    /\ nmsgs = 0
    /\ execSeen = {}
    /\ cachedCover = {}
    /\ fullBatch = FALSE
    /\ lastKind = "none"
    /\ intFailed = FALSE
    /\ sigBy = "none"
    /\ doneBy = "none"
    /\ outcome = "WAITING"
    /\ pollOutputs = Empty
    /\ pollResp = "none"
    /\ gpc = "direct"
    /\ sessions = 0
    /\ first = Empty
    /\ final = Empty
    /\ submitFailed = FALSE
    /\ AuxIdle

NodeOutputNext ==
    \/ StartThread
    \/ Connect
    \/ ConnectFail
    \/ \E m \in OutputMsgs : OnNodeOutput(m)
    \/ SignalDone
    \/ Tick
    \/ WaitReturn
    \/ CloseIfConnected
    \/ ReturnNodeOutput

NodeOutputSpec == NodeOutputInit /\ [][NodeOutputNext]_vars

\* The items of the list-valued entries among the first k entries of output.
RECURSIVE ListItems(_, _)
ListItems(output, k) ==
    IF k = 0 THEN << >>
    ELSE ListItems(output, k - 1)
             \o (IF output[k].list THEN output[k].items ELSE << >>)

\* C25: on an executed event of the tracked job for a watched node, the
\* node's list in result becomes the items of the list-valued output entries
\* in output order, entries that are no lists being dropped; the list does not
\* depend on what result held before, and no other node's list is touched.
C25_OutputFlattened ==
    [][\A m \in OutputMsgs :
          (/\ OnNodeOutput(m)
           /\ m.type = "executed"
           /\ m.pid = JobId
           /\ m.node \in watch_node_ids) =>
              /\ DOMAIN result' = DOMAIN result \cup {m.node}
              /\ result'[m.node] = ListItems(m.output, Len(m.output))
              /\ \A n \in DOMAIN result \ {m.node} : result'[n] = result[n]]_vars

\* An executed event for A whose output had the lists [y, x] and [x], in this
\* order, was handled and signalled.
C25_Witness ==
    /\ DOMAIN result = {"A"}
    /\ result["A"] = <<"y", "x", "x">>
    /\ event
    /\ doneBy = "executed"

\* C26: monitor_websocket_for_node_output returns the empty mapping when the
\* wait ended without the event set, in particular when no executed event of
\* the job for a watched node was handled; when the event was set it returns
\* what the one handled event left in result: one watched node with a
\* matching executed event, whatever else is watched.
C26_NodeOutputReturn ==
    pc = "done" =>
        /\ (~success => returned = Empty)
        /\ (execSeen = {} => returned = Empty)
        /\ (success =>
               /\ returned = result
               /\ Cardinality(DOMAIN returned) = 1
               /\ DOMAIN returned \subseteq watch_node_ids \cap execSeen)

\* Two nodes are watched; the call returned before the deadline with the
\* output of B alone.
C26_Witness ==
    /\ pc = "done"
    /\ watch_node_ids = {"A", "B"}
    /\ DOMAIN returned = {"B"}
    /\ returned["B"] # << >>
    /\ now < Deadline

\* ------------------------------------------------------------------ artifact
\* What generate_* makes of the tracking result (txt2img lines 95-126,
\* inpaint lines 191-265). Here final maps "16" to the node's output.
\* Most images in the output of node "16".
MaxImages == 2

\* file_info: filename, and subfolder if the record has one.
FileInfos ==
    [filename : {"a.png", "b.png"}, has_subfolder : BOOLEAN,
     subfolder : {"", "sub"}]

\* result["16"]: with or without an images key.
NodeOutputs ==
    [has_images : BOOLEAN,
     images : UNION {[1..k -> FileInfos] : k \in 0..MaxImages}]

\* Tracking results of the watch set ["16"]: {} or {"16": ...}.
Results == {Empty} \cup {[n \in {"16"} |-> o] : o \in NodeOutputs}

\* Where a local file is found: nowhere, at the output path, or (inpaint) at
\* one of the two other paths tried.
LocalFinds == {"none", "output", "alt", "third"}
\* requests.get(url) and the write of the temp file: saved, a status other
\* than 200, or an exception of the request or of the write.
Downloads == {"saved", "non200", "raises"}

\* result["16"].get("images", [])
ImagesOf(o) == IF o.has_images THEN o.images ELSE << >>

\* file_info.get('subfolder', '')
SubfolderOf(f) == IF f.has_subfolder THEN f.subfolder ELSE ""

\* f"{COMFY_API_URL}/view?filename={filename}&subfolder={subfolder}"
ViewUrl(filename, subfolder) ==
    <<"COMFY_API_URL", "/view?filename=", filename, "&subfolder=", subfolder>>

\* A resolution that gives the URL only together with a file.
ResolveResult_needsFile(r, local, download) ==
    IF "16" \in DOMAIN r /\ ImagesOf(r["16"]) # << >>
          /\ (local # "none" \/ download = "saved")
    THEN LET file_info == ImagesOf(r["16"])[1]
         IN  [url |-> ViewUrl(file_info.filename, SubfolderOf(file_info)),
              path |-> <<"file", file_info.filename>>]
    ELSE NoArtifact

\* txt2img lines 95-126, inpaint lines 191-265
ResolveResult(r, local, download) ==
    IF "16" \in DOMAIN r /\ ImagesOf(r["16"]) # << >>
    THEN LET file_info == ImagesOf(r["16"])[1]
             url == ViewUrl(file_info.filename, SubfolderOf(file_info))
         IN  IF local # "none"
             THEN [url |-> url,
                   path |-> <<local, SubfolderOf(file_info), file_info.filename>>]
             ELSE IF download = "saved"
             THEN [url |-> url, path |-> <<"temp", file_info.filename>>]
             ELSE [url |-> url, path |-> << >>]
    ELSE NoArtifact

\* The end of generate_*: the pair is returned.
ResolveArtifact(local, download) ==
    /\ gpc = "resolve"
    /\ generated' = ResolveResult(final, local, download)
    /\ gpc' = "returned"
    /\ UNCHANGED <<watch_node_ids, interrupt_on_ready, preview_callback,
                   received_executed, event, ws, wpc, pc, now, success, outputs,
                   result, returned, polls, interrupts, previews, nmsgs, hist,
                   sigBy, doneBy, outcome, pollOutputs, pollResp, sessions,
                   first, final, submitFailed, peer, preview_func, frame, sunk,
                   shown, uiVars>>

\* A generation whose tracking is over, with any result of the watch set.
ResolveInit ==
    /\ watch_node_ids = {"16"}
    /\ interrupt_on_ready = FALSE
    /\ preview_callback = FALSE
    /\ received_executed = {}
    /\ event = FALSE
    /\ ws = "closed"
    /\ wpc = "idle"
    /\ pc = "done"
    /\ now = 0
    /\ success = FALSE
    /\ outputs = Empty
    /\ result = Empty
    /\ returned = Empty
    /\ polls = 0
    /\ interrupts = 0
    /\ previews = 0
    /\ nmsgs = 0
    /\ execSeen = {}
    /\ cachedCover = {}
    /\ fullBatch = FALSE
    /\ lastKind = "none"
    /\ intFailed = FALSE
    /\ sigBy = "none"
    /\ doneBy = "none"
    /\ outcome = "WAITING"
    /\ pollOutputs = Empty
    /\ pollResp = "none"
    /\ gpc = "resolve"
    /\ sessions = 1
    /\ first = Empty
    /\ final \in Results
    /\ submitFailed = FALSE
    /\ AuxIdle

ResolveNext == \E local \in LocalFinds, download \in Downloads :
                   ResolveArtifact(local, download)

ResolveSpec == ResolveInit /\ [][ResolveNext]_vars

\* C27: when the result has node "16" with at least one image, generate_*
\* returns the view URL of the first image's filename and subfolder, a local
\* file found or not, the download saved, refused or failing; it returns
\* ("", None) only when the result lacks "16" or has no image.
C27_UrlAlwaysReturned ==
    gpc = "returned" =>
        IF "16" \in DOMAIN final /\ final["16"].has_images
              /\ Len(final["16"].images) >= 1
        THEN /\ generated.url # << >>
             /\ generated.url[3] = final["16"].images[1].filename
             /\ generated.url[5] =
                    (IF final["16"].images[1].has_subfolder
                     THEN final["16"].images[1].subfolder ELSE "")
        ELSE generated = NoArtifact

\* No local file and no download: the URL of b.png in sub is returned alone.
C27_Witness ==
    /\ gpc = "returned"
    /\ generated.path = << >>
    /\ generated.url =
           <<"COMFY_API_URL", "/view?filename=", "b.png", "&subfolder=", "sub">>

\* C28: once the call has returned, the worker of its session does nothing
\* more: no cancellation request is issued and no preview is handed to the
\* sink after the return.
C28_NoEffectAfterReturn ==
    [][pc = "done" => (interrupts' = interrupts /\ previews' = previews)]_vars

\* C29: a cancellation request is issued only by a session started with
\* interrupt_on_ready, and only out of the handling of an executed or
\* execution_cached event of the tracked job that completes the coverage of
\* the watch set: never without the flag, on a status event, on a preview or
\* any other message, or by the caller at the deadline.
C29_InterruptOnlyOnReady ==
    [][/\ \A m \in Messages :
            (OnMessage(m) /\ wpc' = "interrupt") =>
                /\ interrupt_on_ready
                /\ m.pid = JobId
                /\ \/ /\ m.type = "executed"
                      /\ m.node \in watch_node_ids
                      /\ watch_node_ids \subseteq received_executed \cup {m.node}
                   \/ /\ m.type = "execution_cached"
                      /\ watch_node_ids \subseteq m.nodes
       /\ (wpc' = "interrupt" /\ wpc # "interrupt") => nmsgs' = nmsgs + 1
       /\ (interrupts' # interrupts) =>
                /\ wpc = "interrupt"
                /\ interrupt_on_ready
                /\ sigBy \in {"executed", "cached"}
                /\ interrupts' = interrupts + 1]_vars

\* A cancellation was requested on a cached batch listing the watch set, no
\* executed event having been confirmed.
C29_Witness ==
    /\ interrupts = 1
    /\ interrupt_on_ready
    /\ doneBy = "cached"
    /\ fullBatch
    /\ execSeen = {}
    /\ event

\* C30: the retry cycle of a generation runs with cancel-on-ready disabled
\* and requests no cancellation, so that a generation sends the request of
\* its first cycle at most.
C30_RetryNeverCancels ==
    /\ [](sessions = 2 => ~interrupt_on_ready)
    /\ [](gpc # "direct" => interrupts <= 1)
    /\ [][sessions = 2 => interrupts' = interrupts]_vars

\* The first cycle requested the cancellation and returned empty; the retry
\* cycle was signalled by an executed event and requested none.
C30_Witness ==
    /\ sessions = 2
    /\ interrupts = 1
    /\ ~interrupt_on_ready
    /\ event
    /\ doneBy = "executed"

\* ------------------------------------------------------------------ C31
\* C31: in every reachable state of a tracking session the confirmed set is a
\* subset of the watch set; no step removes a node from it; an executed event
\* for a node outside the watch set leaves it as it was; and no step clears
\* the done signal once it is set.
C31_ConfirmedGrowsDoneOneShot ==
    /\ [](received_executed \subseteq watch_node_ids)
    /\ [][/\ received_executed \subseteq received_executed'
          /\ (event => event')
          /\ \A m \in ExecutedMsgs :
                (OnMessage(m) /\ m.node \notin watch_node_ids)
                    => received_executed' = received_executed]_vars

\* A session watching both nodes that confirmed only A, was signalled done by
\* a drained queue, and has gone on to poll: the confirmed set is a proper
\* subset of the watch set and the signal is still set after the wait.
C31_Witness ==
    /\ watch_node_ids = {"A", "B"}
    /\ received_executed = {"A"}
    /\ event
    /\ doneBy = "status"
    /\ nmsgs = 2
    /\ pc = "done"

\* ------------------------------------------------------------------ the page
\* One tab of the page: on_generate (a generator the page resumes after each
\* yield), the run_generation thread it starts, and on_interrupt. The page
\* runs one on_generate of a tab at a time and one on_interrupt at a time; the
\* two handlers and the threads of earlier runs run side by side.

\* Bound: max_polls, the iterations of the generator's wait loop.
MaxPolls == 1
\* Bound: preview images a generation hands to preview_handler.
MaxPreviewImages == 1
\* Bound: clicks on the interrupt button.
MaxPresses == 1

Modes == {"txt2img", "inpaint"}

\* Everything but the page.
coreVars == <<watch_node_ids, interrupt_on_ready, preview_callback,
              received_executed, event, ws, wpc, pc, now, success, outputs,
              result, returned, polls, interrupts, previews, nmsgs, hist,
              sigBy, doneBy, outcome, pollOutputs, pollResp, genVars, peer,
              preview_func, frame, sunk, shown, generated>>

\* A tracking result with one image of node "16".
OneImage ==
    [n \in {"16"} |->
        [has_images |-> TRUE,
         images |-> <<[filename |-> "a.png", has_subfolder |-> FALSE,
                       subfolder |-> ""]>>]]

\* The pairs generate_txt2img / generate_inpaint can return: ("", None)
\* without an image, else the URL with the path of the file found or
\* downloaded, or with None.
GeneratedBy(m) ==
    {ResolveResult(r, local, download) :
        r \in {Empty, OneImage},
        local \in {"none", "output"},
        download \in Downloads}

\* How generate_* ends: with an exception (queue_prompt's among them) or with
\* a pair.
GenerateRaises == [url |-> <<"raised">>, path |-> << >>]
GenerateOutcomes(m) == {GenerateRaises} \cup GeneratedBy(m)

\* The three outputs of on_generate: image_output, status_text, download.
StartUpdate == [image |-> "none", status |-> "start", download |-> << >>]
PreviewUpdate == [image |-> "preview", status |-> "preview", download |-> << >>]
FinalStatuses == {"success", "error"}
IsFinal(u) == u.status \in FinalStatuses
RECURSIVE NumFinal(_)
NumFinal(us) ==
    IF us = << >> THEN 0
    ELSE (IF IsFinal(Head(us)) THEN 1 ELSE 0) + NumFinal(Tail(us))

\* A final update that reports success only with a file to download.
FinalUpdate_needsFile(m, res, exists, download, opens) ==
    IF res.url # << >> /\ res.path # << >>
    THEN [image |-> "url", status |-> "success", download |-> res.path]
    ELSE [image |-> "none", status |-> "error", download |-> << >>]

\* txt2img lines 246-254: the URL and the path, or the error status.
\* inpaint lines 378-438: with a URL, a missing file is downloaded to a temp
\* file; a file that is there and opens is shown as an image, else the URL is.
FinalUpdate(m, res, exists, download, opens) ==
    IF res.url = << >>
    THEN [image |-> "none", status |-> "error", download |-> << >>]
    ELSE IF m = "txt2img"
    THEN [image |-> "url", status |-> "success", download |-> res.path]
    ELSE LET here == res.path # << >> /\ exists
             file_path == IF ~here /\ download = "saved"
                          THEN <<"temp", "inpaint">> ELSE res.path
             there == here \/ download = "saved"
         IN  [image |-> IF there /\ opens THEN "img" ELSE "url",
              status |-> "success", download |-> file_path]

\* on_generate up to its first yield (txt2img 179-188, inpaint 320-324).
OnGenerate ==
    /\ gen = "idle"
    /\ run < MaxRuns
    /\ run' = run + 1
    /\ is_generating' = TRUE
    /\ preview_images' = 0
    /\ updates' = <<StartUpdate>>
    /\ gen' = "started"
    /\ UNCHANGED <<coreVars, mode, thread, generation_complete,
                   generation_result, raised, last_preview_count, npolls,
                   ipc, presses, cancels, found, interrupt_status>>

\* The generator resumed: the run's result and event are created and its
\* thread is started (txt2img 190-221, inpaint 326-359).
StartGeneration ==
    /\ gen = "started"
    /\ generation_result' = NoArtifact
    /\ generation_complete' = FALSE
    /\ raised' = FALSE
    /\ thread' = [thread EXCEPT ![run] = "running"]
    /\ last_preview_count' = 0
    /\ npolls' = 0
    /\ gen' = "loop"
    /\ UNCHANGED <<coreVars, mode, is_generating, run, preview_images,
                   updates, ipc, presses, cancels, found, interrupt_status>>

\* One iteration of the wait loop (txt2img 223-239, inpaint 361-371), or its
\* end after max_polls iterations.
Poll ==
    /\ gen = "loop"
    /\ IF npolls = MaxPolls \/ generation_complete
       THEN /\ gen' = "wait"
            /\ UNCHANGED <<last_preview_count, npolls, updates>>
       ELSE /\ npolls' = npolls + 1
            /\ gen' = "loop"
            /\ IF preview_images > last_preview_count
               THEN /\ last_preview_count' = preview_images
                    /\ updates' = Append(updates, PreviewUpdate)
               ELSE UNCHANGED <<last_preview_count, updates>>
    /\ UNCHANGED <<coreVars, mode, is_generating, run, thread,
                   generation_complete, generation_result, raised,
                   preview_images, ipc, presses, cancels, found,
                   interrupt_status>>

\* generation_complete.wait() and the final yield (txt2img 242-254, inpaint
\* 373-438); the generator ends and the locals of its loop are gone.
Final(exists, download, opens) ==
    /\ gen = "wait"
    /\ generation_complete
    /\ updates' = Append(updates, FinalUpdate(mode, generation_result,
                                               exists, download, opens))
    /\ last_preview_count' = 0
    /\ npolls' = 0
    /\ gen' = "idle"
    /\ UNCHANGED <<coreVars, mode, is_generating, run, thread,
                   generation_complete, generation_result, raised,
                   preview_images, ipc, presses, cancels, found,
                   interrupt_status>>

\* A thread whose cleanup is not in a finally clause: an exception of
\* generate_* ends it at once.
AfterGenerate_noFinally(out) ==
    IF out = GenerateRaises THEN "ended" ELSE "finally"

\* txt2img 204-210, inpaint 337-350: returned or raised, the finally clause
\* is next.
AfterGenerate(out) == "finally"

\* The call of generate_* in run_generation, ending with out. The thread
\* writes the result of its own run: that of an earlier run is out of reach
\* of the current generator.
Generate(r, out) ==
    /\ thread[r] = "running"
    /\ IF r # run
       THEN UNCHANGED <<raised, generation_result>>
       ELSE IF out = GenerateRaises
       THEN raised' = TRUE /\ UNCHANGED generation_result
       ELSE generation_result' = out /\ UNCHANGED raised
    /\ thread' = [thread EXCEPT ![r] = AfterGenerate(out)]
    /\ UNCHANGED <<coreVars, mode, is_generating, gen, run,
                   generation_complete, preview_images, last_preview_count,
                   npolls, updates, ipc, presses, cancels, found,
                   interrupt_status>>

\* preview_handler, called while generate_* of run r is tracking
\* (txt2img 191-195, inpaint 326-330).
PreviewHandler(r) ==
    /\ thread[r] = "running"
    /\ preview_images < MaxPreviewImages
    /\ preview_images' = preview_images + 1
    /\ UNCHANGED <<coreVars, mode, is_generating, gen, run, thread,
                   generation_complete, generation_result, raised,
                   last_preview_count, npolls, updates, ipc, presses,
                   cancels, found, interrupt_status>>

\* finally: generation_complete.set() (txt2img 211, inpaint 351)
SetComplete(r) ==
    /\ thread[r] = "finally"
    /\ generation_complete' = (generation_complete \/ r = run)
    /\ thread' = [thread EXCEPT ![r] = "clear"]
    /\ UNCHANGED <<coreVars, mode, is_generating, gen, run,
                   generation_result, raised, preview_images,
                   last_preview_count, npolls, updates, ipc, presses,
                   cancels, found, interrupt_status>>

\* finally: is_generating.clear() (txt2img 212, inpaint 352); the thread ends.
ClearGenerating(r) ==
    /\ thread[r] = "clear"
    /\ is_generating' = FALSE
    /\ thread' = [thread EXCEPT ![r] = "ended"]
    /\ UNCHANGED <<coreVars, mode, gen, run, generation_complete,
                   generation_result, raised, preview_images,
                   last_preview_count, npolls, updates, ipc, presses,
                   cancels, found, interrupt_status>>

\* txt2img 172, inpaint 315: if is_generating.is_set()
PressSends(flag) == flag

\* on_interrupt up to its call of interrupt(), or to its return with the
\* "no active generation" status (txt2img 171-177, inpaint 314-318).
OnInterrupt ==
    /\ ipc = "idle"
    /\ presses < MaxPresses
    /\ presses' = presses + 1
    /\ found' = is_generating
    /\ IF PressSends(is_generating)
       THEN ipc' = "post" /\ UNCHANGED interrupt_status
       ELSE ipc' = "idle" /\ interrupt_status' = "no_active"
    /\ UNCHANGED <<coreVars, mode, is_generating, gen, run, thread,
                   generation_complete, generation_result, raised,
                   preview_images, last_preview_count, npolls, updates,
                   cancels>>

\* txt2img 176 reports "sent" whatever interrupt() returned; inpaint 317
\* reports the failure.
InterruptStatus(m, ok) == IF m = "inpaint" /\ ~ok THEN "failed" ELSE "sent"

\* interrupt() (comfy_api.py 34-40) and the return of on_interrupt.
Interrupt(ok) ==
    /\ ipc = "post"
    /\ cancels' = cancels + 1
    /\ interrupt_status' = InterruptStatus(mode, ok)
    /\ ipc' = "idle"
    /\ UNCHANGED <<coreVars, mode, is_generating, gen, run, thread,
                   generation_complete, generation_result, raised,
                   preview_images, last_preview_count, npolls, updates,
                   presses, found>>

\* The page is open on either tab; no tracking call is followed here.
UiInit ==
    /\ watch_node_ids = {"16"}
    /\ interrupt_on_ready = FALSE
    /\ preview_callback = FALSE
    /\ received_executed = {}
    /\ event = FALSE
    /\ ws = "new"
    /\ wpc = "idle"
    /\ pc = "idle"
    /\ now = 0
    /\ success = FALSE
    /\ outputs = Empty
    /\ result = Empty
    /\ returned = Empty
    /\ polls = 0
    /\ interrupts = 0
    /\ previews = 0
    /\ nmsgs = 0
    /\ execSeen = {}
    /\ cachedCover = {}
    /\ fullBatch = FALSE
    /\ lastKind = "none"
    /\ intFailed = FALSE
    /\ sigBy = "none"
    /\ doneBy = "none"
    /\ outcome = "WAITING"
    /\ pollOutputs = Empty
    /\ pollResp = "none"
    /\ gpc = "direct"
    /\ sessions = 0
    /\ first = Empty
    /\ final = Empty
    /\ submitFailed = FALSE
    /\ peer = NoPeer
    /\ NoPreviews
    /\ generated = NoArtifact
    /\ mode \in Modes
    /\ is_generating = FALSE
    /\ gen = "idle"
    /\ run = 0
    /\ thread = [r \in Runs |-> "none"]
    /\ generation_complete = FALSE
    /\ generation_result = NoArtifact
    /\ raised = FALSE
    /\ preview_images = 0
    /\ last_preview_count = 0
    /\ npolls = 0
    /\ updates = << >>
    /\ ipc = "idle"
    /\ presses = 0
    /\ cancels = 0
    /\ found = FALSE
    /\ interrupt_status = "none"

GeneratorStep ==
    \/ StartGeneration
    \/ Poll
    \/ \E exists \in BOOLEAN, download \in Downloads, opens \in BOOLEAN :
           Final(exists, download, opens)

ThreadStep(r) ==
    \/ \E out \in GenerateOutcomes(mode) : Generate(r, out)
    \/ SetComplete(r)
    \/ ClearGenerating(r)

UiNext ==
    \/ OnGenerate
    \/ GeneratorStep
    \/ \E r \in Runs : ThreadStep(r)
    \/ \E r \in Runs : PreviewHandler(r)
    \/ OnInterrupt
    \/ \E ok \in BOOLEAN : Interrupt(ok)

UiSpec == UiInit /\ [][UiNext]_vars

\* A step of the program, as opposed to a click on the page or a preview of
\* the server.
ProgramStep ==
    \/ GeneratorStep
    \/ \E r \in Runs : ThreadStep(r)
    \/ \E ok \in BOOLEAN : Interrupt(ok)

\* The program does not stop while one of its steps can be taken: the page
\* resumes a generator it has started, a started thread runs on (generate_*
\* returns or raises: its waits have deadlines), and a request the button
\* has begun is completed.
UiFairSpec == UiSpec /\ WF_vars(ProgramStep)

\* ------------------------------------------------------------------ C32
\* A generation started from the tab is still running: its generator has not
\* ended, or its thread has not.
Running ==
    \/ gen # "idle"
    \/ \E r \in Runs : thread[r] \in {"running", "finally", "clear"}

\* The last update the current run has yielded.
LastUpdate == updates[Len(updates)]

\* C32: only the current run's thread is before its finally clause; once it
\* is past generation_complete.set() the run's generation-complete is set,
\* and the last step of a thread clears is_generating; of the MaxRuns runs
\* started, every thread ends, generate_* returning or raising, and every
\* on_generate ends; when it has ended it has yielded exactly one final
\* update, as its last one; no final update is yielded before generation-complete is set; and the
\* final update reports success when the run produced a non-empty URL and the
\* error status otherwise.
C32_OneFinalUpdateAfterComplete ==
    /\ [](\A r \in Runs : thread[r] \in {"running", "finally"} => r = run)
    /\ [](run > 0 /\ thread[run] \in {"clear", "ended"} => generation_complete)
    /\ [][\A r \in Runs : (thread[r] # "ended" /\ thread'[r] = "ended")
                              => ~is_generating']_vars
    /\ <>[](~Running)
    /\ [](NumFinal(updates) <= 1)
    /\ []((gen = "idle" /\ run > 0) =>
            /\ NumFinal(updates) = 1
            /\ IsFinal(LastUpdate)
            /\ LastUpdate.status =
                   IF generation_result.url # << >>
                   THEN "success" ELSE "error")
    /\ [][NumFinal(updates') > NumFinal(updates)
              => generation_complete]_vars

\* The first run's generate_* raised: its thread has ended with the signal
\* set and the flag cleared, and the generator has ended with the error
\* status as its one final update, after a preview update.
C32_Witness ==
    /\ run = 1
    /\ raised
    /\ thread[1] = "ended"
    /\ generation_complete
    /\ ~is_generating
    /\ gen = "idle"
    /\ Len(updates) = 3
    /\ LastUpdate.status = "error"

\* ------------------------------------------------------------------ C33
\* The background generation of a run is inside generate_*.
Generating == \E r \in Runs : thread[r] = "running"

\* C33: the button sends a cancellation request only after reading the flag
\* as set; the flag is set while a generation of the tab is inside generate_*
\* and only while a generation of the tab is still running; a click with no
\* generation running sends nothing and reports "no active generation".
C33_FlagTracksGeneration ==
    /\ [](ipc = "post" => found)
    /\ [](Generating => is_generating)
    /\ [](is_generating => Running)
    /\ [][(OnInterrupt /\ ~Running)
              => /\ ipc' = "idle"
                 /\ cancels' = cancels
                 /\ interrupt_status' = "no_active"]_vars
====
